---------------------------- MODULE Spec2Model ----------------------------
(***************************************************************************)
(* A model of src/etl.py (illinois-sunshine): the load/merge engine of    *)
(* SunshineTransformLoad and its dataset drivers, and the materialized     *)
(* view builder SunshineViews.                                             *)
(*                                                                         *)
(* The relational connection is modelled by what the SQL of etl.py does   *)
(* on it: target[t] is the content of target relation t, temp[t] is the   *)
(* staging relation temp_<t> (whether it exists, its columns, its rows in *)
(* insertion order), views is the set of materialized views that exist.   *)
(* A cell of a source file is a sequence of one-character strings.         *)
(***************************************************************************)
EXTENDS Integers, Sequences, FiniteSets, TLC

VARIABLES
    family,    \* the target relation the drivers called in this behaviour share,
               \* "all" when the behaviour calls the drivers of every relation
    target,    \* target[t]: set of rows of relation t
    temp,      \* temp[t]: [exists, columns, rows] of relation temp_<t>
    pc,        \* "idle" | "load" | "loaded" | "raised" (an exception reached the caller)
    cur,       \* the running load(): driver, chunk_size, rows still to come, the
               \* exception that ends them, rows, i
    batches,   \* the executeTransaction calls of the running load(): rows and outcome
    clock,     \* logical time: one tick per load()/update() call; NOW() reads it
    last,      \* the last call made: op, driver, outcome, file read, rows it
               \* normalized, rows staged before it wrote, updates since load
    inserted,  \* update(): the rows returned by the merge statement (RETURNING *)
    crashed,   \* the last load() that was interrupted: driver, rows, target, time
    trans,     \* "closed" | "active": a transaction begun and neither committed nor rolled back
    views,     \* the materialized views that exist
    vpc,       \* makeAllViews: 0 before the call, then the index of the next builder
    verr,      \* the exception that left makeAllViews, "none" while there is none
    built,     \* makeAllViews: the builders that completed in this call, in call order
    tables,    \* whether the base tables the views read exist
    dropped,   \* whether dropViews has run (--recreate_views)
    vcall,     \* the last call of a view builder: the statements it executed
    run        \* the run of the program: its arguments, the call it is at, the
               \* calls it has made in order with their outcomes

vars == <<family, target, temp, pc, cur, batches, clock, last, inserted, crashed, trans,
          views, vpc, verr, built, tables, dropped, vcall, run>>

etlvars == <<family, target, temp, pc, cur, batches, clock, last, inserted, crashed,
            trans>>
viewvars == <<views, vpc, verr, built, tables, dropped, vcall>>

----------------------------------------------------------------------------
(* Bounds of the model. *)

\* most data rows in one source file
MaxRows == 2
\* most load()/update() calls in one behaviour
MaxClock == 5
\* largest chunk_size an instance is constructed with
MaxChunk == 2
\* most update() calls that follow one load()
MaxUpdates == 2
\* most data rows in one source file when the chunk sizes vary
MaxLoadRows == 3
\* most load()/update() calls of the officers drivers over successive runs
MaxRunCalls == 12

\* chunk_size as __main__ and __init__ default it
chunk_size_default == 50000

----------------------------------------------------------------------------
(* Values. *)

\* SQL NULL / Python None; a value no stripped cell equals
NULL == <<"NULL">>

Min(a, b) == IF a < b THEN a ELSE b

Range(s) == {s[i] : i \in 1..Len(s)}

\* cells the id column of the source files takes
IdCells == {<<"1">>, <<"2">>}
\* an id cell the file leaves blank
Blank == <<>>
\* the committee a PrevOfficers row or a link row names
CommitteeCells == {<<"7">>}
\* every other column of a source file
Filler == <<"x">>


----------------------------------------------------------------------------
(* The dataset drivers: the class attributes of the subclasses of         *)
(* SunshineTransformLoad.  FiledDocs stands for the drivers that inherit  *)
(* transform, createTempTable and upsert unchanged (D2Reports, FiledDocs, *)
(* Receipts, Expenditures, Investments).                                   *)

Drivers ==
    {"FiledDocs", "Candidates", "Officers", "PrevOfficers", "OfficerCommittees",
     "CandidateCommittees", "Committees", "Candidacy"}

\* the drivers of filed_docs, candidates and officers, with which the batches
\* of load(), its interruption and the files with ragged rows are explored
\* (the recoding transforms have SpecRecode)
BatchDrivers == {"FiledDocs", "Candidates", "Officers", "PrevOfficers", "OfficerCommittees"}

table_name(d) ==
    CASE d = "FiledDocs" -> "filed_docs"
      [] d = "Candidates" -> "candidates"
      [] d \in {"Officers", "PrevOfficers", "OfficerCommittees"} -> "officers"
      [] d = "CandidateCommittees" -> "candidate_committees"
      [] d = "Committees" -> "committees"
      [] d = "Candidacy" -> "candidacies"
      [] d = "D2Reports" -> "d2_reports"
      [] d = "Receipts" -> "receipts"
      [] d = "Expenditures" -> "expenditures"
      [] d = "Investments" -> "investments"

\* the drivers that inherit transform (205-216)
BaseTransform ==
    {"FiledDocs", "Candidates", "D2Reports", "Receipts", "Expenditures", "Investments"}

\* the drivers whose merge joins on id alone: those of the inherited upsert
\* (167-190) and Candidates
JoinOnId == BaseTransform \cup {"Committees", "Candidacy"}

Tables == {table_name(d) : d \in Drivers}

BatchTables == {table_name(d) : d \in BatchDrivers}

\* the columns of the target relations (sunshine.models), in order; a relation
\* keeps the columns the positional insertions of the transforms name
OfficerColumns ==
    <<"id", "committee_id", "last_name", "first_name", "address1", "address2",
      "city", "state", "zipcode", "title", "phone", "resign_date", "current">>

\* the first twenty-five columns of committees: the transform recodes the
\* cells at indices 14, 23 and 24
CommitteeColumns ==
    <<"id", "column_1", "column_2", "column_3", "column_4", "column_5", "column_6",
      "column_7", "column_8", "column_9", "column_10", "column_11", "column_12",
      "column_13", "status", "column_15", "column_16", "column_17", "column_18",
      "column_19", "column_20", "column_21", "column_22", "candidate_position",
      "ballot_position">>

\* the first six columns of candidacies: the transform recodes the cells at
\* indices 2, 4 and 5
CandidacyColumns ==
    <<"id", "column_1", "election_type", "column_3", "race_type", "outcome">>

Columns(t) ==
    CASE t = "filed_docs" -> <<"id", "doc_name">>
      [] t = "candidates" -> <<"id", "last_name", "date_added", "last_update", "ocd_id">>
      [] t = "officers" -> OfficerColumns
      [] t = "candidate_committees" -> <<"committee_id", "candidate_id">>
      [] t = "committees" -> CommitteeColumns
      [] t = "candidacies" -> CandidacyColumns
      [] t \in {"d2_reports", "receipts", "expenditures", "investments"} ->
            <<"id", "column_1">>

header(d) ==
    CASE d = "FiledDocs" -> Columns("filed_docs")
      [] d = "Candidates" ->
            SelectSeq(Columns("candidates"),
                      LAMBDA f : f \notin {"date_added", "last_update", "ocd_id"})
      [] d \in {"Officers", "PrevOfficers"} -> Columns("officers")
      [] d = "OfficerCommittees" -> <<"committee_id", "officer_id">>
      [] d = "CandidateCommittees" -> <<"committee_id", "candidate_id">>
      [] d \in {"Committees", "Candidacy", "D2Reports", "Receipts", "Expenditures",
                "Investments"} -> Columns(table_name(d))

current(d) == d = "Officers"

----------------------------------------------------------------------------
(* transform: the Row Normalizer.  A file is the sequence of the rows     *)
(* csv.reader yields, the header line first.                               *)

\* the characters str.strip() removes from a cell of a latin-1 file: space,
\* tab, line feed, carriage return, form feed, vertical tab (0B), the
\* separators 1C, 1D, 1E and 1F, next line (85) and no-break space (A0)
Whitespace ==
    {" ", "\t", "\n", "\r", "\f", "", "", "", "", "", "", " "}

\* str.strip()
strip(cell) ==
    LET keep == {i \in 1..Len(cell) : cell[i] \notin Whitespace}
    IN  IF keep = {} THEN <<>>
        ELSE LET lo == CHOOSE i \in keep : \A j \in keep : i <= j
                 hi == CHOOSE i \in keep : \A j \in keep : j <= i
             IN  SubSeq(cell, lo, hi)

\* SunshineTransformLoad.transform: the stripped cell decides
clean_base(cell) == IF strip(cell) = <<>> THEN NULL ELSE strip(cell)

\* the transforms of the subclasses: the cell as read decides
clean_sub(cell) == IF cell = <<>> THEN NULL ELSE strip(cell)

\* list.insert(i, x), i >= 0: past the end it appends
insert(row, i, x) ==
    LET k == Min(i, Len(row))
    IN  SubSeq(row, 1, k) \o <<x>> \o SubSeq(row, k + 1, Len(row))

\* OrderedDict(zip(header, row)): pairs up to the shorter of the two
zip(hdr, row) ==
    LET n == Min(Len(hdr), Len(row))
    IN  [f \in {hdr[i] : i \in 1..n} |->
            row[CHOOSE i \in 1..n : hdr[i] = f /\ \A j \in (i + 1)..n : hdr[j] # f]]

\* csvkit RowChecker(reader).checked_rows(), a library outside the source
\* tree: the first row is taken as the column names and a row of another
\* length is set aside, which is how spec.md (sections 4.1 and 7) has a row
\* of the wrong column count skipped.  The library can also make one row of
\* successive short rows; no file drawn here holds two rows of a wrong
\* length in succession
checked_rows(file) ==
    IF file = <<>> THEN <<>>
    ELSE SelectSeq(Tail(file), LAMBDA row : Len(row) = Len(file[1]))

\* a Python string literal as a value of a record
literal(str) == <<str>>

\* a recoding that takes O for support and S for oppose (faulty variant; C27
\* excludes it)
committees_recode_swapped(row) ==
    [i \in 1..Len(row) |->
        IF i = 15 THEN row[i] = <<"A">>
        ELSE IF i \in {24, 25}
             THEN IF row[i] = <<"O">> THEN literal("support")
                  ELSE IF row[i] = <<"S">> THEN literal("oppose")
                  ELSE NULL
             ELSE row[i]]

\* SunshineCommittees.transform: row[14] becomes a boolean, row[23] and
\* row[24] an enumerated position (indices from 0 in the source, from 1 here)
committees_recode(row) ==
    [i \in 1..Len(row) |->
        IF i = 15 THEN row[i] = <<"A">>
        ELSE IF i \in {24, 25}
             THEN IF row[i] = <<"O">> THEN literal("oppose")
                  ELSE IF row[i] = <<"S">> THEN literal("support")
                  ELSE NULL
             ELSE row[i]]

\* SunshineCandidacy.election_types.get(cell)
election_types(cell) ==
    CASE cell = <<"C", "E">> -> literal("Consolidated Election")
      [] cell = <<"G", "P">> -> literal("General Primary")
      [] cell = <<"G", "E">> -> literal("General Election")
      [] cell = <<"C", "P">> -> literal("Consolidated Primary")
      [] cell = <<"N", "E">> -> NULL
      [] cell = <<"S", "E">> -> literal("Special Election")
      [] OTHER -> NULL

\* SunshineCandidacy.race_types.get(cell)
race_types(cell) ==
    CASE cell = <<"I", "n", "c">> -> literal("incumbent")
      [] cell = <<"O", "p", "e", "n">> -> literal("open seat")
      [] cell = <<"C", "h", "a", "l">> -> literal("challenger")
      [] cell = <<"R", "e", "t">> -> literal("retired")
      [] OTHER -> NULL

\* a recoding that copies the outcome cell (faulty variant; C28 excludes it)
candidacy_recode_outcome_copied(row) ==
    [i \in 1..Len(row) |->
        CASE i = 3 -> election_types(row[i])
          [] i = 5 -> race_types(row[i])
          [] OTHER -> row[i]]

\* SunshineCandidacy.transform: row[2] and row[4] go through the lookup
\* tables, row[5] becomes won, lost or null
candidacy_recode(row) ==
    [i \in 1..Len(row) |->
        CASE i = 3 -> election_types(row[i])
          [] i = 5 -> race_types(row[i])
          [] i = 6 -> IF row[i] = <<"W", "o", "n">> THEN literal("won")
                      ELSE IF row[i] = <<"L", "o", "s", "t">> THEN literal("lost")
                      ELSE NULL
          [] OTHER -> row[i]]

\* the row is too short for an index the transform reads: IndexError
raises(d, row) ==
    \/ d = "Committees" /\ Len(row) < 25
    \/ d = "Candidacy" /\ Len(row) < 6

\* one row of a subclass transform, after its cells are cleaned
recode(d, row) ==
    CASE d = "Committees" -> committees_recode(row)
      [] d = "Candidacy" -> candidacy_recode(row)
      [] d = "Officers" -> Append(insert(insert(row, 1, NULL), 11, NULL), current(d))
      [] d = "PrevOfficers" -> Append(insert(row, 10, NULL), current(d))
      [] d \in {"OfficerCommittees", "CandidateCommittees"} -> Tail(row)
      [] OTHER -> row

transform_row(d, row) ==
    IF d \in BaseTransform
    THEN zip(header(d), [i \in 1..Len(row) |-> clean_base(row[i])])
    ELSE zip(header(d), recode(d, [i \in 1..Len(row) |-> clean_sub(row[i])]))

\* the rows of the file a transform takes up, the empty ones set aside
transform_rows(d, file) ==
    LET rows == IF d \in BaseTransform
                THEN checked_rows(file)
                ELSE IF file = <<>> THEN <<>> ELSE Tail(file)
    IN  SelectSeq(rows, LAMBDA row : row # <<>>)

\* the exceptions that can end the generator transform(), "none" when it runs
\* to the end of the file.  On a file without a header line next(reader)
\* raises StopIteration inside the generator: an interpreter that enforces
\* PEP 479 turns it into a RuntimeError, an earlier one ends the generator
\* without a record and without an error
transform_errors(d, file) ==
    IF file = <<>>
    THEN {"none", "RuntimeError"}
    ELSE IF \E i \in 1..Len(transform_rows(d, file)) :
               raises(d, transform_rows(d, file)[i])
         THEN {"IndexError"} ELSE {"none"}

\* the sequence of records transform() yields for a file: one for each row
\* up to the first that raises
transform(d, file) ==
    LET kept == transform_rows(d, file)
        bad == {i \in 1..Len(kept) : raises(d, kept[i])}
        n == IF bad = {} THEN Len(kept)
             ELSE (CHOOSE i \in bad : \A j \in bad : i <= j) - 1
    IN  [i \in 1..n |-> transform_row(d, kept[i])]

----------------------------------------------------------------------------
(* The source files the model draws. *)

Fill(n) == [i \in 1..n |-> Filler]

\* the data rows of <filename> the model draws from, in the column layout the
\* driver's transform expects: up to two ids, one of them with two different names
\* in the generic driver, and rows whose id cell is blank
RawRows(d) ==
    CASE d = "FiledDocs" ->
            {<<<<"1">>, <<"a">>>>, <<<<"1">>, <<"b">>>>, <<<<"2">>, <<"a">>>>,
             <<Blank, <<"a">>>>}
      [] d = "Candidates" ->
            {<<id, <<"a">>>> : id \in IdCells \cup {Blank}}
      [] d = "Officers" ->
            {<<id, <<"a">>>> \o Fill(8) : id \in IdCells \cup {Blank}}
      [] d = "PrevOfficers" ->
            {<<id, c, <<"b">>>> \o Fill(8) : id \in {<<"1">>}, c \in CommitteeCells}
      [] d = "OfficerCommittees" ->
            {<<Filler, c, id>> : c \in CommitteeCells, id \in {<<"1">>}}
      [] d = "CandidateCommittees" ->
            {<<Filler, c, id>> : c \in CommitteeCells, id \in IdCells \cup {Blank}}
      [] d = "Committees" ->
            {<<id>> \o Fill(13) \o <<<<"A">>>> \o Fill(8) \o <<<<"S">>, <<"O">>>> :
                id \in IdCells}
      [] d = "Candidacy" ->
            {<<id, Filler, <<"G", "P">>, Filler, <<"I", "n", "c">>, <<"W", "o", "n">>>> :
                id \in IdCells}

SeqsUpTo(S, n) == UNION {[1..k -> S] : k \in 0..n}

HeaderLine(d) == Fill(Len(CHOOSE r \in RawRows(d) : TRUE))

\* the files of up to MaxRows data rows; a file with a row whose id cell is
\* blank holds two data rows at most
Files(d) ==
    {<<HeaderLine(d)>> \o rows :
        rows \in {q \in SeqsUpTo(RawRows(d), MaxRows) :
                     (\E i \in 1..Len(q) : Blank \in Range(q[i])) => Len(q) <= 2}}

----------------------------------------------------------------------------
(* The staging relation temp_<table_name>. *)

\* integer: the columns the source declares INTEGER (the types of the
\* columns copied from a target relation are those of sunshine.models)
NoTable == [exists |-> FALSE, columns |-> {}, integer |-> {}, rows |-> <<>>]

\* the first transaction of SunshineOfficerCommittees.createTempTable:
\* DROP TABLE IF EXISTS temp_<t>; the other drivers drop nothing
dropTempTable(d, tmp) == IF d = "OfficerCommittees" THEN NoTable ELSE tmp

\* the transaction of CREATE TABLE temp_<t>: it fails with a ProgrammingError
\* when temp_<t> exists, which executeTransaction swallows; OfficerCommittees
\* creates two INTEGER columns, the other drivers the columns of <t>
createTempTable(d, tmp) ==
    IF tmp.exists
    THEN tmp
    ELSE IF d = "OfficerCommittees"
         THEN [exists |-> TRUE, columns |-> {"committee_id", "officer_id"},
               integer |-> {"committee_id", "officer_id"}, rows |-> <<>>]
         ELSE [exists |-> TRUE, columns |-> Range(Columns(table_name(d))),
               integer |-> {}, rows |-> <<>>]

\* the text PostgreSQL reads as an INTEGER: an optional sign and decimal
\* digits of a value that fits 32 bits
Digits == <<"0", "1", "2", "3", "4", "5", "6", "7", "8", "9">>

DigitValue(c) == (CHOOSE k \in 1..10 : Digits[k] = c) - 1

RECURSIVE DropZeros(_)
DropZeros(s) == IF s # <<>> /\ Head(s) = "0" THEN DropZeros(Tail(s)) ELSE s

RECURSIVE DecimalValue(_)
DecimalValue(s) ==
    IF s = <<>> THEN 0
    ELSE 10 * DecimalValue(SubSeq(s, 1, Len(s) - 1)) + DigitValue(s[Len(s)])

integer_input(cell) ==
    LET signed == cell # <<>> /\ cell[1] \in {"+", "-"}
        body == IF signed THEN Tail(cell) ELSE cell
        digits == DropZeros(body)
    IN  /\ body # <<>>
        /\ \A i \in 1..Len(body) : body[i] \in Range(Digits)
        /\ \/ Len(digits) < 10
           \/ /\ Len(digits) = 10
              /\ LET high == DecimalValue(SubSeq(digits, 1, 9))
                     low == DigitValue(digits[10])
                 IN  \/ high < 214748364
                     \/ high = 214748364 /\ low <= (IF cell[1] = "-" THEN 8 ELSE 7)

\* the text of the value an INTEGER column stores for an accepted input: the
\* number without its plus sign and leading zeros
integer_output(cell) ==
    LET signed == cell[1] \in {"+", "-"}
        digits == DropZeros(IF signed THEN Tail(cell) ELSE cell)
    IN  IF digits = <<>> THEN <<"0">>
        ELSE IF cell[1] = "-" THEN <<"-">> \o digits ELSE digits

\* the rows INSERT INTO temp_<t> adds for the records of a batch
insert_rows(tmp, rows) ==
    [i \in 1..Len(rows) |->
        [f \in DOMAIN rows[i] |->
            IF f \in tmp.integer /\ rows[i][f] # NULL
            THEN integer_output(rows[i][f]) ELSE rows[i][f]]]

\* the outcome of INSERT INTO temp_<t> (header) VALUES (:header) for one batch
insert_outcome(d, tmp, rows) ==
    IF \E i \in 1..Len(rows) : DOMAIN rows[i] # Range(header(d))
    THEN \* a record lacks a bind parameter: raised before the statement is sent
         "StatementError"
    ELSE IF ~tmp.exists \/ ~(Range(header(d)) \subseteq tmp.columns)
         THEN "ProgrammingError"
         ELSE IF \E i \in 1..Len(rows) : \E f \in tmp.integer \cap Range(header(d)) :
                    rows[i][f] # NULL /\ ~integer_input(rows[i][f])
              THEN \* invalid input syntax for integer: the empty string of a
                   \* cell of whitespace, or a text that is no number
                   "DataError"
              ELSE "ok"

\* executeTransaction: only ProgrammingError is caught (and rolled back)
Swallowed == {"ok", "ProgrammingError"}

----------------------------------------------------------------------------
(* upsert: what the merge statement of each driver does. *)

\* SQL equality: never true of NULL
Eq(a, b) == a # NULL /\ b # NULL /\ a = b

\* the columns of temp_<t> the statement names
upsert_columns(d) == Range(header(d))

\* a link UPDATE that does not test officers.current (faulty variant; C22
\* excludes it)
upsert_where_any_current(d, t, s) ==
    CASE d \in JoinOnId -> Eq(t.id, s.id)
      [] d \in {"Officers", "PrevOfficers"} -> Eq(t.id, s.id) /\ t.current = s.current
      [] d = "OfficerCommittees" -> Eq(t.id, s.officer_id)
      [] d = "CandidateCommittees" ->
            Eq(t.committee_id, s.committee_id) /\ Eq(t.candidate_id, s.candidate_id)

\* the WHERE clause of the UPDATE: target row t joins staged row s
upsert_where(d, t, s) ==
    CASE d \in JoinOnId -> Eq(t.id, s.id)
      [] d \in {"Officers", "PrevOfficers"} -> Eq(t.id, s.id) /\ t.current = s.current
      [] d = "OfficerCommittees" -> Eq(t.id, s.officer_id) /\ t.current = TRUE
      [] d = "CandidateCommittees" ->
            Eq(t.committee_id, s.committee_id) /\ Eq(t.candidate_id, s.candidate_id)

\* a SET clause that assigns nothing (faulty variant; C2 and C23 exclude it)
upsert_set_nothing(d, t, s, now) == t

\* a Candidates SET clause that also stamps date_added (faulty variant; C8 excludes it)
upsert_set_date_added(d, t, s, now) ==
    CASE d = "OfficerCommittees" -> [t EXCEPT !.committee_id = s.committee_id]
      [] d = "Candidates" ->
            [c \in DOMAIN t |-> IF c \in Range(header(d)) THEN s[c]
                                ELSE IF c \in {"last_update", "date_added"} THEN now
                                ELSE t[c]]
      [] OTHER ->
            [c \in DOMAIN t |-> IF c \in Range(header(d)) THEN s[c] ELSE t[c]]

\* the SET clause of the UPDATE: row t after it is updated from staged row s
upsert_set(d, t, s, now) ==
    CASE d = "OfficerCommittees" -> [t EXCEPT !.committee_id = s.committee_id]
      [] d = "Candidates" ->
            [c \in DOMAIN t |-> IF c \in Range(header(d)) THEN s[c]
                                ELSE IF c = "last_update" THEN now ELSE t[c]]
      [] OTHER ->
            [c \in DOMAIN t |-> IF c \in Range(header(d)) THEN s[c] ELSE t[c]]

\* the anti-join of the INSERT: staged row s joins no row of T
upsert_absent(d, T, s) ==
    CASE d \in JoinOnId -> \A t \in T : ~Eq(t.id, s.id)
      [] d \in {"Officers", "PrevOfficers"} ->
            \A t \in T : ~(Eq(t.id, s.id) /\ t.current = s.current)
      [] d = "OfficerCommittees" -> FALSE
      [] d = "CandidateCommittees" ->
            \A t \in T : ~(/\ Eq(t.candidate_id, s.candidate_id)
                            /\ Eq(t.committee_id, s.committee_id))

\* the row the INSERT makes of staged row s
upsert_row(d, s, now) ==
    IF d = "Candidates"
    THEN [c \in Range(Columns("candidates")) |->
            IF c \in DOMAIN s THEN s[c]
            ELSE IF c \in {"last_update", "date_added"} THEN now ELSE NULL]
    ELSE s

\* the rows the INSERT adds, in staging order; a row of candidate_committees,
\* which has no column that identifies it, carries its place in the relation
\* (ctid) so that the relation can hold one pair twice
upsert_insert(d, T, rows, now) ==
    LET new == SelectSeq(rows, LAMBDA s : upsert_absent(d, T, s))
    IN  [i \in 1..Len(new) |->
            IF d = "CandidateCommittees"
            THEN [committee_id |-> new[i].committee_id,
                  candidate_id |-> new[i].candidate_id, ctid |-> Cardinality(T) + i]
            ELSE upsert_row(d, new[i], now)]

\* the identity of a row of the target relation (spec.md section 3); the
\* association table candidate_committees declares no key, a row of it is
\* identified by its place only
Key(t) ==
    CASE t = "officers" -> {"id", "current"}
      [] t = "candidate_committees" -> {"ctid"}
      [] OTHER -> {"id"}

SameKey(t, a, b) == \A k \in Key(t) : a[k] = b[k]

\* the rows of T hold no key twice
UniqueKeys(t, T) == \A a, b \in T : SameKey(t, a, b) => a = b

\* a unique violation: the statement would leave two rows with one key
unique_violation(t, updated, ins) ==
    \/ \E i, j \in 1..Len(ins) : i # j /\ SameKey(t, ins[i], ins[j])
    \/ \E i \in 1..Len(ins) : \E u \in updated : SameKey(t, ins[i], u)

\* a not-null violation: a row the INSERT adds has no id in a relation
\* whose primary key holds the id (the flag current of a record is never
\* null, candidate_committees has no key column)
null_violation(t, ins) ==
    \E i \in 1..Len(ins) : \E k \in Key(t) \cap {"id"} : ins[i][k] = NULL

\* the target rows the UPDATE joins to a staged row
Matched(d, T, rows) == {t \in T : \E i \in 1..Len(rows) : upsert_where(d, t, rows[i])}

\* UPDATE ... FROM with several join rows for one target row uses one of them,
\* which one is not predictable: every way of picking one per target row
JoinChoices(d, T, rows) ==
    {ch \in [Matched(d, T, rows) -> 1..Len(rows)] :
        \A t \in Matched(d, T, rows) : upsert_where(d, t, rows[ch[t]])}

\* the target rows after the UPDATE under choice ch
upsert_update(d, T, rows, ch, now) ==
    {IF t \in DOMAIN ch THEN upsert_set(d, t, rows[ch[t]], now) ELSE t : t \in T}

\* RETURNING *: the inserted rows; the updated rows for OfficerCommittees
upsert_returning(d, T, rows, ch, now) ==
    IF d = "OfficerCommittees"
    THEN {upsert_set(d, t, rows[ch[t]], now) : t \in DOMAIN ch}
    ELSE Range(upsert_insert(d, T, rows, now))

\* the outcome of the merge statement
upsert_outcome(d, tmp, T, ch, now) ==
    IF ~tmp.exists \/ ~(upsert_columns(d) \subseteq tmp.columns)
    THEN "ProgrammingError"
    ELSE IF \/ unique_violation(table_name(d), upsert_update(d, T, tmp.rows, ch, now),
                                upsert_insert(d, T, tmp.rows, now))
            \/ null_violation(table_name(d), upsert_insert(d, T, tmp.rows, now))
         THEN "IntegrityError"
         ELSE "ok"

\* SQL NOW(): the time of the transaction
NOW == clock

----------------------------------------------------------------------------
(* The initial content of the relations. *)

\* the rows the relations may hold before the first call
TargetRows(t) ==
    CASE t = "filed_docs" ->
            {[id |-> r[1], doc_name |-> r[2]] :
                r \in {q \in RawRows("FiledDocs") : q[1] # Blank}}
      [] t = "candidates" ->
            {[id |-> id, last_name |-> <<"b">>, date_added |-> 0, last_update |-> 0,
              ocd_id |-> <<"o">>] : id \in IdCells}
      [] t = "officers" ->
            {zip(OfficerColumns,
                 <<id, c, IF cu THEN <<"a">> ELSE <<"b">>>> \o Fill(7) \o <<NULL, NULL, cu>>) :
                id \in IdCells, c \in CommitteeCells, cu \in BOOLEAN}
      [] t = "candidate_committees" ->
            {[committee_id |-> c, candidate_id |-> <<"1">>, ctid |-> 1] :
                c \in CommitteeCells}
      [] t = "committees" ->
            {[transform_row("Committees", r) EXCEPT !.status = FALSE] :
                r \in RawRows("Committees")}
      [] t = "candidacies" ->
            {[transform_row("Candidacy", r) EXCEPT !.outcome = literal("lost")] :
                r \in RawRows("Candidacy")}

InitTargets(t) ==
    {T \in SUBSET TargetRows(t) : Cardinality(T) <= MaxRows /\ UniqueKeys(t, T)}

NoCall ==
    [op |-> "none", driver |-> "none", outcome |-> "ok", file |-> <<>>, rows |-> <<>>,
     staged |-> <<>>, updates |-> 0]

\* the program has not been started; printed: the row counts the calls of
\* update() have printed ('inserted <n> <table_name>')
NoRun ==
    [args |-> [load_data |-> FALSE, recreate_views |-> FALSE], step |-> "start",
     at |-> 0, log |-> <<>>, printed |-> <<>>]

\* no load() has been interrupted
NoCrash == [driver |-> "none", rows |-> <<>>, target |-> {}, at |-> 0]

NoLoad ==
    [driver |-> "none", chunk_size |-> 1, todo |-> <<>>, error |-> "none",
     rows |-> <<>>, i |-> 1]

InitETL(fams) ==
    /\ family \in fams
    /\ \E T \in InitTargets(family) :
          target = [t \in Tables |-> IF t = family THEN T ELSE {}]
    /\ temp = [t \in Tables |-> NoTable]
    /\ pc = "idle"
    /\ cur = NoLoad
    /\ batches = <<>>
    /\ clock = 1
    /\ last = NoCall
    /\ inserted = {}
    /\ crashed = NoCrash
    /\ trans = "closed"
    /\ run = NoRun

\* no view builder has been called
NoBuilderCall == [view |-> "none", stmts |-> <<>>, outcome |-> "ok"]

NoViews ==
    /\ views = {}
    /\ vpc = 0
    /\ verr = "none"
    /\ built = <<>>
    /\ tables = TRUE
    /\ dropped = FALSE
    /\ vcall = NoBuilderCall

----------------------------------------------------------------------------
(* load(): createTempTable, then the rows of transform() in batches of    *)
(* chunk_size, each batch written by one executeTransaction.               *)

\* executeTransaction(insert, *rows) for the batch `rows`, after which the
\* running load() is in state `next` at position `to`
flush(rows, next, to) ==
    LET t == table_name(cur.driver)
        outcome == insert_outcome(cur.driver, temp[t], rows)
    IN  /\ batches' = Append(batches, [rows |-> rows, outcome |-> outcome])
        /\ temp' = IF outcome = "ok"
                   THEN [temp EXCEPT ![t].rows = @ \o insert_rows(temp[t], rows)]
                   ELSE temp
        /\ IF outcome \in Swallowed
           THEN /\ pc' = to
                /\ cur' = next
                /\ trans' = "closed"
           ELSE /\ pc' = "raised"
                /\ cur' = cur
                /\ trans' = "active"

\* a flush test that lets one row too many into a batch (faulty variant; C9 excludes it)
full_late(rows, chunk_size) == Len(rows) > chunk_size

\* the flush test of the loop: len(rows) % self.chunk_size is 0
full(rows, chunk_size) == Len(rows) % chunk_size = 0

load(d, file, chunk_size) ==
    /\ pc = "idle"
    /\ clock < MaxClock
    /\ last.op = "load" => last.outcome = "interrupted"
    /\ family \in {table_name(d), "all"}
    /\ temp' = [temp EXCEPT ![table_name(d)] = createTempTable(d, dropTempTable(d, @))]
    /\ \E error \in transform_errors(d, file) :
          cur' = [driver |-> d, chunk_size |-> chunk_size, todo |-> transform(d, file),
                  error |-> error, rows |-> <<>>, i |-> 1]
    /\ batches' = <<>>
    /\ pc' = "load"
    /\ clock' = clock + 1
    /\ last' = [op |-> "load", driver |-> d, outcome |-> "ok", file |-> file,
                rows |-> transform(d, file),
                staged |-> temp'[table_name(d)].rows, updates |-> 0]
    /\ UNCHANGED <<family, crashed, target, inserted, trans>>

\* one turn of `for row in self.transform()`
load_row ==
    /\ pc = "load"
    /\ cur.todo # <<>>
    /\ LET rows == Append(cur.rows, Head(cur.todo))
       IN  IF full(rows, cur.chunk_size)
           THEN flush(rows, [cur EXCEPT !.todo = Tail(@), !.rows = <<>>, !.i = @ + 1], "load")
           ELSE /\ cur' = [cur EXCEPT !.todo = Tail(@), !.rows = rows]
                /\ UNCHANGED <<temp, batches, pc, trans>>
    /\ UNCHANGED <<family, crashed, target, clock, last, inserted>>

\* a loop end that leaves the rows of an unfinished batch unwritten (faulty
\* variant; C20 excludes it)
load_end_no_remainder ==
    /\ pc = "load"
    /\ cur.todo = <<>>
    /\ pc' = "loaded"
    /\ UNCHANGED <<temp, batches, cur, trans>>
    /\ UNCHANGED <<family, crashed, target, clock, last, inserted>>

\* the loop is over: `if rows:` writes what is left; when transform() raised
\* instead of ending, the exception leaves load() and the rows of the
\* unfinished batch are not written
load_end ==
    /\ pc = "load"
    /\ cur.todo = <<>>
    /\ IF cur.error # "none"
       THEN /\ pc' = "raised"
            /\ UNCHANGED <<temp, batches, cur, trans>>
       ELSE IF cur.rows # <<>>
            THEN flush(cur.rows, cur, "loaded")
            ELSE /\ pc' = "loaded"
                 /\ UNCHANGED <<temp, batches, cur, trans>>
    /\ UNCHANGED <<family, crashed, target, clock, last, inserted>>

\* load() returns to its caller
load_return ==
    /\ pc = "loaded"
    /\ pc' = "idle"
    /\ cur' = NoLoad
    /\ batches' = <<>>
    /\ last' = [last EXCEPT !.outcome =
                   IF \A k \in 1..Len(batches) : batches[k].outcome = "ok"
                   THEN "ok" ELSE "ProgrammingError"]
    /\ UNCHANGED <<family, crashed, target, temp, clock, inserted, trans>>

\* the process running load() dies between two statements, or after the last
\* one and before load() returns: the batches that committed stay in the
\* staging relation, the rows not yet written are lost
interrupt ==
    /\ pc \in {"load", "loaded"}
    /\ pc' = "idle"
    /\ cur' = NoLoad
    /\ last' = [last EXCEPT !.outcome = "interrupted"]
    /\ crashed' = [driver |-> cur.driver, rows |-> last.rows,
                   target |-> target[table_name(cur.driver)], at |-> clock]
    /\ UNCHANGED <<family, target, temp, batches, clock, inserted, trans>>

\* the process running load() of OfficerCommittees dies inside createTempTable,
\* after the transaction of DROP TABLE committed and before the one of CREATE
\* TABLE begins: temp_<t> is gone and no row of the file has been read
interrupt_create(d, file) ==
    /\ pc = "idle"
    /\ clock < MaxClock
    /\ last.op = "load" => last.outcome = "interrupted"
    /\ table_name(d) = family
    /\ d = "OfficerCommittees"   \* the one createTempTable of two transactions
    /\ temp' = [temp EXCEPT ![table_name(d)] = dropTempTable(d, @)]
    /\ batches' = <<>>
    /\ clock' = clock + 1
    /\ last' = [op |-> "load", driver |-> d, outcome |-> "interrupted", file |-> file,
                rows |-> transform(d, file), staged |-> <<>>, updates |-> 0]
    /\ crashed' = [driver |-> d, rows |-> transform(d, file),
                   target |-> target[table_name(d)], at |-> clock + 1]
    /\ UNCHANGED <<family, target, pc, cur, inserted, trans>>

----------------------------------------------------------------------------
(* update(): the merge statement in one transaction. *)

update(d) ==
    /\ pc = "idle"
    /\ clock < MaxClock
    /\ last.op \in {"load", "update"}
    /\ last.driver = d
    /\ last.updates < MaxUpdates
    /\ clock' = clock + 1
    /\ LET t == table_name(d)
           tmp == temp[t]
       IN  IF ~tmp.exists \/ ~(upsert_columns(d) \subseteq tmp.columns)
           THEN \* ProgrammingError: rolled back, not raised, nothing printed
                /\ last' = [last EXCEPT !.op = "update", !.outcome = "ProgrammingError",
                                        !.updates = @ + 1]
                /\ inserted' = {}
                /\ UNCHANGED <<target, pc, trans>>
           ELSE \E ch \in JoinChoices(d, target[t], tmp.rows) :
                LET outcome == upsert_outcome(d, tmp, target[t], ch, NOW)
                IN  /\ last' = [last EXCEPT !.op = "update", !.outcome = outcome,
                                            !.updates = @ + 1]
                    /\ IF outcome = "ok"
                       THEN /\ target' = [target EXCEPT ![t] =
                                   upsert_update(d, @, tmp.rows, ch, NOW)
                                     \cup Range(upsert_insert(d, @, tmp.rows, NOW))]
                            /\ inserted' = upsert_returning(d, target[t], tmp.rows, ch, NOW)
                            /\ UNCHANGED <<pc, trans>>
                       ELSE \* not a ProgrammingError: neither commit nor rollback runs
                            /\ pc' = "raised"
                            /\ trans' = "active"
                            /\ inserted' = {}
                            /\ UNCHANGED target
    /\ UNCHANGED <<family, crashed, temp, cur, batches>>

----------------------------------------------------------------------------
(* The load/merge engine called as __main__ calls it: load() of a driver, *)
(* then its update(), which a caller may repeat.                           *)

Init == InitETL(Tables) /\ NoViews

Next ==
    \/ \E d \in Drivers : \E file \in Files(d) :
          load(d, file, chunk_size_default) /\ UNCHANGED <<viewvars, run>>
    \/ load_row /\ UNCHANGED <<viewvars, run>>
    \/ load_end /\ UNCHANGED <<viewvars, run>>
    \/ load_return /\ UNCHANGED <<viewvars, run>>
    \/ \E d \in Drivers : update(d) /\ UNCHANGED <<viewvars, run>>

Spec == Init /\ [][Next]_vars

\* one family of drivers at a time
InitFiledDocs == InitETL({"filed_docs"}) /\ NoViews
InitCandidates == InitETL({"candidates"}) /\ NoViews
InitOfficers == InitETL({"officers"}) /\ NoViews

SpecFiledDocs == InitFiledDocs /\ [][Next]_vars
SpecCandidates == InitCandidates /\ [][Next]_vars
SpecOfficers == InitOfficers /\ [][Next]_vars

\* the same calls with every chunk_size up to MaxChunk (--chunk_size) and files
\* long enough for whole batches and a partial one; the relations start empty
\* the data rows these files draw from: the rows of RawRows that name id 1
ChunkRows(d) == {r \in RawRows(d) : \A k \in 1..Len(r) : r[k] \notin {<<"2">>, Blank}}

InitChunks ==
    /\ InitETL(BatchTables)
    /\ target = [t \in Tables |-> {}]
    /\ NoViews

NextChunks ==
    \/ \E d \in BatchDrivers, n \in 1..MaxChunk :
          \E rows \in SeqsUpTo(ChunkRows(d), MaxLoadRows) :
             load(d, <<HeaderLine(d)>> \o rows, n) /\ UNCHANGED <<viewvars, run>>
    \/ load_row /\ UNCHANGED <<viewvars, run>>
    \/ load_end /\ UNCHANGED <<viewvars, run>>
    \/ load_return /\ UNCHANGED <<viewvars, run>>
    \/ \E d \in BatchDrivers : update(d) /\ UNCHANGED <<viewvars, run>>

SpecChunks == InitChunks /\ [][NextChunks]_vars

\* the same calls, one load() of which may be interrupted, between two
\* batches or between the two transactions of createTempTable
InitCrash == InitChunks

NextCrash ==
    \/ \E d \in BatchDrivers, n \in 1..MaxChunk :
          \E rows \in SeqsUpTo(ChunkRows(d), MaxLoadRows) :
             load(d, <<HeaderLine(d)>> \o rows, n) /\ UNCHANGED <<viewvars, run>>
    \/ load_row /\ UNCHANGED <<viewvars, run>>
    \/ load_end /\ UNCHANGED <<viewvars, run>>
    \/ load_return /\ UNCHANGED <<viewvars, run>>
    \/ crashed = NoCrash /\ interrupt /\ UNCHANGED <<viewvars, run>>
    \/ \E rows \in SeqsUpTo(ChunkRows("OfficerCommittees"), MaxLoadRows) :
          /\ crashed = NoCrash
          /\ interrupt_create("OfficerCommittees",
                              <<HeaderLine("OfficerCommittees")>> \o rows)
          /\ UNCHANGED <<viewvars, run>>
    \/ \E d \in BatchDrivers : update(d) /\ UNCHANGED <<viewvars, run>>

SpecCrash == InitCrash /\ [][NextCrash]_vars

----------------------------------------------------------------------------
(* load() of files with blank cells, padded cells, empty lines and rows   *)
(* that are one cell short or one cell long.                               *)

\* the cells these files draw from
TransformCells == {<<"1">>, <<>>, <<" ">>, <<" ", "1">>, <<"\f">>}

\* a source row of the length of the header line, one shorter or one longer,
\* with cells of TransformCells in its first columns; or an empty line
RaggedRows(d) ==
    LET n == Len(HeaderLine(d))
    IN  {<<>>} \cup
        CASE d \in {"FiledDocs", "Candidates"} ->
                UNION {[1..k -> TransformCells] : k \in (n - 1)..(n + 1)}
          [] d \in {"Officers", "PrevOfficers"} ->
                {<<c1, c2>> \o Fill(k) :
                    c1 \in TransformCells, c2 \in TransformCells, k \in (n - 3)..(n - 1)}
          [] d = "OfficerCommittees" ->
                {<<Filler, c1>> : c1 \in TransformCells}
                  \cup {<<Filler, c1, c2>> \o Fill(k) :
                           c1 \in TransformCells, c2 \in TransformCells, k \in 0..1}

\* a header line, one such row and at most one row of ChunkRows after it; or
\* a file without any line
TransformFiles(d) ==
    {<<HeaderLine(d), r>> : r \in RaggedRows(d)}
      \cup {<<HeaderLine(d), r, g>> : r \in RaggedRows(d), g \in ChunkRows(d)}
      \cup {<<>>}

InitTransform == InitChunks

NextTransform ==
    \/ \E d \in BatchDrivers : \E file \in TransformFiles(d) :
          load(d, file, chunk_size_default) /\ UNCHANGED <<viewvars, run>>
    \/ load_row /\ UNCHANGED <<viewvars, run>>
    \/ load_end /\ UNCHANGED <<viewvars, run>>
    \/ load_return /\ UNCHANGED <<viewvars, run>>

SpecTransform == InitTransform /\ [][NextTransform]_vars

----------------------------------------------------------------------------
(* SunshineViews: the materialized views. *)

\* a call order with condensedReceipts ahead of mostRecentFilings (faulty variant;
\* C10 and C25 exclude it)
makeAllViews_order_swapped ==
    <<"expenditures_by_candidate", "receipts_by_week", "committee_receipts_by_week",
      "incumbent_candidates", "condensed_receipts", "most_recent_filings",
      "condensed_expenditures", "committee_money", "candidate_money", "full_search">>

\* makeAllViews: the views in the order their builders are called
makeAllViews_order ==
    <<"expenditures_by_candidate", "receipts_by_week", "committee_receipts_by_week",
      "incumbent_candidates", "most_recent_filings", "condensed_receipts",
      "condensed_expenditures", "committee_money", "candidate_money", "full_search">>

Views == Range(makeAllViews_order)

\* the materialized views the defining query of view v reads
Reads(v) ==
    CASE v \in {"condensed_receipts", "condensed_expenditures", "committee_money"} ->
            {"most_recent_filings"}
      [] v = "candidate_money" -> {"committee_money"}
      [] v = "full_search" -> {"condensed_receipts", "condensed_expenditures"}
      [] OTHER -> {}

\* a set of views PostgreSQL can hold: no view without the views it reads
Closed(V) == \A v \in V : Reads(v) \subseteq V

RECURSIVE Dependents(_, _)
\* the views of V that read view v, directly or through other views
Dependents(v, V) ==
    LET direct == {w \in V : v \in Reads(w)}
    IN  direct \cup UNION {Dependents(w, V) : w \in direct}

\* a DROP whose CASCADE removes the named view only (faulty variant; C24
\* excludes it)
drop_no_cascade(V, v, cascade) == V \ {v}

\* DROP MATERIALIZED VIEW IF EXISTS v [CASCADE]
drop(V, v, cascade) ==
    IF cascade THEN V \ ({v} \cup Dependents(v, V)) ELSE V \ {v}

\* SunshineViews.executeTransaction: how the transaction of a statement ends
views_executeTransaction(outcome) ==
    CASE outcome = "ok" -> "commit"
      [] outcome = "ProgrammingError" -> "rollback"
      [] OTHER -> "open"

\* a REFRESH that fails on an existing view too (faulty variant; C11 excludes it)
refresh_outcome_fails(v, V) == "ProgrammingError"

\* REFRESH MATERIALIZED VIEW v
refresh_outcome(v, V) == IF v \in V THEN "ok" ELSE "ProgrammingError"

\* a CREATE that does not need the views its query reads (faulty variant; C13
\* excludes it)
create_outcome_unchecked(v, V, tabs) ==
    IF v \notin V /\ tabs THEN "ok" ELSE "ProgrammingError"

\* CREATE MATERIALIZED VIEW v AS <query>: every relation the query reads exists
create_outcome(v, V, tabs) ==
    IF v \notin V /\ tabs /\ Reads(v) \subseteq V THEN "ok" ELSE "ProgrammingError"

\* one statement of a builder, as executeTransaction ran it
statement(stmt, outcome) ==
    [stmt |-> stmt, outcome |-> outcome, trans |-> views_executeTransaction(outcome)]

\* a builder: REFRESH the view; on ProgrammingError (it does not exist) CREATE it,
\* which fails with a ProgrammingError when a relation its query reads is missing
builder_statements(v, V, tabs) ==
    IF refresh_outcome(v, V) = "ok"
    THEN <<statement("REFRESH", "ok")>>
    ELSE <<statement("REFRESH", refresh_outcome(v, V)),
           statement("CREATE", create_outcome(v, V, tabs))>>

\* how the builder ends: by a refresh, by a create, or by the error it raises
builder_how(v, V, tabs) ==
    LET stmts == builder_statements(v, V, tabs)
        end == stmts[Len(stmts)]
    IN  IF end.outcome # "ok" THEN end.outcome
        ELSE IF end.stmt = "REFRESH" THEN "refresh" ELSE "create"

\* the views that exist after the builder of v ran
builder_views(v, V, tabs) ==
    IF \E k \in 1..Len(builder_statements(v, V, tabs)) :
          builder_statements(v, V, tabs)[k] = statement("CREATE", "ok")
    THEN V \cup {v} ELSE V

\* the record of a call of the builder of v
builder_call(v, V, tabs) ==
    [view |-> v, stmts |-> builder_statements(v, V, tabs),
     outcome |-> IF builder_how(v, V, tabs) \in {"refresh", "create"} THEN "ok"
                 ELSE builder_how(v, V, tabs)]

InitViews ==
    /\ InitETL({"filed_docs"})
    /\ target = [t \in Tables |-> {}]
    /\ tables \in BOOLEAN
    /\ views \in {V \in SUBSET Views : Closed(V) /\ (~tables => V = {})}
    /\ vpc = 0
    /\ verr = "none"
    /\ built = <<>>
    /\ dropped = FALSE
    /\ vcall = NoBuilderCall

\* dropViews: six DROP statements, each in its own transaction
dropViews ==
    /\ vpc = 0
    /\ ~dropped
    /\ dropped' = TRUE
    /\ views' = drop(drop(drop(drop(drop(drop(views,
                    "receipts_by_week", FALSE),
                    "committee_receipts_by_week", FALSE),
                    "incumbent_candidates", FALSE),
                    "most_recent_filings", TRUE),
                    "full_search", FALSE),
                    "expenditures_by_candidate", FALSE)
    /\ UNCHANGED <<vpc, verr, built, tables, vcall>>

\* makeAllViews is called
makeAllViews ==
    /\ vpc = 0
    /\ vpc' = 1
    /\ UNCHANGED <<views, verr, built, tables, dropped, vcall>>

\* makeAllViews calls its next builder
makeAllViews_next ==
    /\ vpc \in 1..Len(makeAllViews_order)
    /\ verr = "none"
    /\ LET v == makeAllViews_order[vpc]
           how == builder_how(v, views, tables)
       IN  /\ vcall' = builder_call(v, views, tables)
           /\ views' = builder_views(v, views, tables)
           /\ IF how = "ProgrammingError"
              THEN \* executeTransaction rolls back and raises; nothing catches it
                   /\ verr' = how
                   /\ UNCHANGED <<vpc, built>>
              ELSE /\ built' = Append(built, [view |-> v, how |-> how])
                   /\ vpc' = vpc + 1
                   /\ verr' = verr
    /\ UNCHANGED <<tables, dropped>>

\* a caller calls the builder of view v by itself
builder(v) ==
    /\ vpc = 0
    /\ vcall' = builder_call(v, views, tables)
    /\ views' = builder_views(v, views, tables)
    /\ UNCHANGED <<vpc, verr, built, tables, dropped>>

NextViews ==
    \/ dropViews /\ UNCHANGED <<etlvars, run>>
    \/ makeAllViews /\ UNCHANGED <<etlvars, run>>
    \/ makeAllViews_next /\ UNCHANGED <<etlvars, run>>
    \/ \E v \in Views : builder(v) /\ UNCHANGED <<etlvars, run>>

SpecViews == InitViews /\ [][NextViews]_vars

----------------------------------------------------------------------------
(* Vocabulary of the properties. *)

\* this step is a call of update() on driver d
UpdateStep(d) == clock' = clock + 1 /\ last'.op = "update" /\ last'.driver = d

\* the rows of the staging relation of driver d
Staged(d) == temp[table_name(d)].rows

\* staged rows a and b carry the same merge key of driver d
SameMergeKey(d, a, b) ==
    CASE d \in JoinOnId -> Eq(a.id, b.id)
      [] d \in {"Officers", "PrevOfficers"} -> Eq(a.id, b.id) /\ a.current = b.current
      [] d = "OfficerCommittees" -> Eq(a.officer_id, b.officer_id)
      [] d = "CandidateCommittees" ->
            Eq(a.committee_id, b.committee_id) /\ Eq(a.candidate_id, b.candidate_id)

\* no two staged rows carry the same merge key
NoDupKeys(d, rows) ==
    \A i, j \in 1..Len(rows) : i # j => ~SameMergeKey(d, rows[i], rows[j])

\* every staged row carries a key: its id is not null
NoNullKeys(rows) == \A i \in 1..Len(rows) : rows[i].id # NULL

\* the rows of T with the id of staged row s
WithId(T, s) == {t \in T : Eq(t.id, s.id)}

----------------------------------------------------------------------------
(* The program: __main__ *)

\* the datasets in the order __main__ constructs their drivers and calls
\* load() and update() on them
main_order_d2_first ==
    <<"committees", "candidates", "officers", "prev_off", "candidacy",
      "can_cmte_xwalk", "off_cmte_xwalk", "d2_reports", "filed_docs", "receipts",
      "expenditures", "investments">>

main_order ==
    <<"committees", "candidates", "officers", "prev_off", "candidacy",
      "can_cmte_xwalk", "off_cmte_xwalk", "filed_docs", "d2_reports", "receipts",
      "expenditures", "investments">>

\* the driver class of each dataset object of __main__
main_driver(ds) ==
    CASE ds = "committees" -> "Committees"
      [] ds = "candidates" -> "Candidates"
      [] ds = "officers" -> "Officers"
      [] ds = "prev_off" -> "PrevOfficers"
      [] ds = "candidacy" -> "Candidacy"
      [] ds = "can_cmte_xwalk" -> "CandidateCommittees"
      [] ds = "off_cmte_xwalk" -> "OfficerCommittees"
      [] ds = "filed_docs" -> "FiledDocs"
      [] ds = "d2_reports" -> "D2Reports"
      [] ds = "receipts" -> "Receipts"
      [] ds = "expenditures" -> "Expenditures"
      [] ds = "investments" -> "Investments"

\* the relations of a run
MainTables == {table_name(main_driver(main_order[k])) : k \in 1..Len(main_order)}

\* the data rows the files of a run draw from: a good row for each dataset, a
\* second name in FiledDocs.txt, a Committees row that is too short and a
\* link row whose committee cell holds a space
MainRows(d) ==
    CASE d = "Committees" ->
            {<<<<"7">>>> \o Fill(13) \o <<<<"A">>>> \o Fill(8) \o <<<<"O">>, <<"S">>>>,
             Fill(24)}
      [] d = "Candidacy" ->
            {<<<<"1">>, Filler, <<"G", "E">>, Filler, <<"I", "n", "c">>, <<"W", "o", "n">>>>}
      [] d = "CandidateCommittees" -> {<<Filler, <<"7">>, <<"1">>>>}
      [] d = "OfficerCommittees" ->
            ChunkRows(d) \cup {<<Filler, <<" ">>, <<"1">>>>}
      [] d \in {"D2Reports", "Receipts", "Expenditures", "Investments"} ->
            {<<<<"1">>, <<"a">>>>}
      [] OTHER -> ChunkRows(d)

\* a header line of the width of the good rows and one data row
MainFiles(d) ==
    LET n == IF d = "Committees" THEN Len(header(d))
             ELSE Len(CHOOSE r \in MainRows(d) : TRUE)
    IN  {<<Fill(n), r>> : r \in MainRows(d)}

call(d, op, outcome) == [dataset |-> d, op |-> op, outcome |-> outcome]

\* parse_args: the two flags that select the stages of a run
main_start(load_data, recreate_views) ==
    /\ run.step = "start"
    /\ run' = [run EXCEPT !.args = [load_data |-> load_data,
                                    recreate_views |-> recreate_views],
                          !.step = IF load_data THEN "initializeDB"
                                   ELSE IF recreate_views THEN "dropViews"
                                   ELSE "makeAllViews",
                          !.at = IF load_data THEN 1 ELSE 0]
    /\ UNCHANGED <<etlvars, viewvars>>

\* SunshineCommittees(connection, Base.metadata): the constructor runs
\* initializeDB, whose create_all makes the base tables that are missing
initializeDB ==
    /\ run.step = "initializeDB"
    /\ tables' = TRUE
    /\ run' = [run EXCEPT !.step = "load"]
    /\ UNCHANGED <<etlvars, views, vpc, verr, built, dropped, vcall>>

\* <dataset>.load() is called
main_load(file) ==
    /\ run.step = "load"
    /\ load(main_driver(main_order[run.at]), file, chunk_size_default)
    /\ run' = [run EXCEPT !.step = "loading"]
    /\ UNCHANGED viewvars

\* <dataset>.load() returns
main_load_return ==
    /\ run.step = "loading"
    /\ load_return
    /\ run' = [run EXCEPT !.log = Append(@, call(main_order[run.at], "load", "ok")),
                          !.step = "update"]
    /\ UNCHANGED viewvars

\* an exception leaves <dataset>.load(): nothing catches it, the run ends
main_load_raised ==
    /\ run.step = "loading"
    /\ pc = "raised"
    /\ run' = [run EXCEPT !.log = Append(@, call(main_order[run.at], "load", "raised")),
                          !.step = "raised"]
    /\ UNCHANGED <<etlvars, viewvars>>

\* <dataset>.update(), then the next dataset or the views; an exception that
\* leaves update() ends the run
main_update ==
    /\ run.step = "update"
    /\ update(main_driver(main_order[run.at]))
    /\ LET outcome == IF pc' = "raised" THEN "raised" ELSE last'.outcome
       IN  run' = [run EXCEPT
                      !.log = Append(@, call(main_order[run.at], "update", outcome)),
                      !.printed = IF outcome = "ok"
                                  THEN Append(@, Cardinality(inserted')) ELSE @,
                      !.step = IF outcome = "raised" THEN "raised"
                               ELSE IF run.at < Len(main_order) THEN "load"
                               ELSE IF run.args.recreate_views THEN "dropViews"
                               ELSE "makeAllViews",
                      !.at = IF outcome # "raised" /\ run.at < Len(main_order)
                             THEN @ + 1 ELSE @]
    /\ UNCHANGED viewvars

\* views.dropViews() under --recreate_views
main_dropViews ==
    /\ run.step = "dropViews"
    /\ dropViews
    /\ run' = [run EXCEPT !.log = Append(@, call("views", "dropViews", "ok")),
                          !.step = "makeAllViews"]
    /\ UNCHANGED etlvars

\* views.makeAllViews() is called
main_makeAllViews ==
    /\ run.step = "makeAllViews"
    /\ makeAllViews
    /\ run' = [run EXCEPT !.step = "makingViews"]
    /\ UNCHANGED etlvars

\* views.makeAllViews() returns after its last builder, or the error of a
\* builder leaves it and ends the run
main_makeAllViews_return ==
    /\ run.step = "makingViews"
    /\ vpc > Len(makeAllViews_order) \/ verr # "none"
    /\ run' = [run EXCEPT
                  !.log = Append(@, call("views", "makeAllViews",
                                         IF verr = "none" THEN "ok" ELSE "raised")),
                  !.step = IF verr = "none" THEN "makeAllIndexes" ELSE "raised"]
    /\ UNCHANGED <<etlvars, viewvars>>

\* indexes.makeAllIndexes(), whose executeTransaction swallows the
\* ProgrammingError of an index that exists, then connection.close()
main_makeAllIndexes ==
    /\ run.step = "makeAllIndexes"
    /\ run' = [run EXCEPT !.log = Append(@, call("views", "makeAllIndexes", "ok")),
                          !.step = "closed"]
    /\ UNCHANGED <<etlvars, viewvars>>

\* a run starts on a database without staging relations whose relations are
\* empty: without base tables, or with them and with none or all of the views
InitMain ==
    /\ family = "all"
    /\ target = [t \in MainTables |-> {}]
    /\ temp = [t \in MainTables |-> NoTable]
    /\ pc = "idle"
    /\ cur = NoLoad
    /\ batches = <<>>
    /\ clock = MaxClock - 2 * Len(main_order)
    /\ last = NoCall
    /\ inserted = {}
    /\ crashed = NoCrash
    /\ trans = "closed"
    /\ run = NoRun
    /\ tables \in BOOLEAN
    /\ views \in {V \in {{}, Views} : ~tables => V = {}}
    /\ vpc = 0
    /\ verr = "none"
    /\ built = <<>>
    /\ dropped = FALSE
    /\ vcall = NoBuilderCall

NextMain ==
    \/ \E load_data, recreate_views \in BOOLEAN : main_start(load_data, recreate_views)
    \/ initializeDB
    \/ /\ run.step = "load"
       /\ \E file \in MainFiles(main_driver(main_order[run.at])) : main_load(file)
    \/ load_row /\ UNCHANGED <<viewvars, run>>
    \/ load_end /\ UNCHANGED <<viewvars, run>>
    \/ main_load_return
    \/ main_load_raised
    \/ main_update
    \/ main_dropViews
    \/ main_makeAllViews
    \/ makeAllViews_next /\ UNCHANGED <<etlvars, run>>
    \/ main_makeAllViews_return
    \/ main_makeAllIndexes

SpecMain == InitMain /\ [][NextMain]_vars

----------------------------------------------------------------------------
(* Successive runs of the program on one database: the part of __main__   *)
(* that works on the officers relation, with the real load() and update(). *)

\* the drivers of the officers relation in the order __main__ runs them
officers_order == <<"Officers", "PrevOfficers", "OfficerCommittees">>

\* the first run starts on a database without staging relations: one that
\* initializeDB has just created, or one whose officers relation holds the
\* records of earlier merges and whose staging relations were dropped
InitRuns ==
    /\ family = "officers"
    /\ \E T \in InitTargets("officers") :
          target = [t \in Tables |-> IF t = "officers" THEN T ELSE {}]
    /\ temp = [t \in Tables |-> NoTable]
    /\ pc = "idle"
    /\ cur = NoLoad
    /\ batches = <<>>
    /\ clock = MaxClock - MaxRunCalls
    /\ last = NoCall
    /\ inserted = {}
    /\ crashed = NoCrash
    /\ trans = "closed"
    /\ run = [NoRun EXCEPT !.args.load_data = TRUE, !.step = "load", !.at = 1]
    /\ NoViews

\* the files of the runs: every row names an id (a row without one ends
\* the run in its first merge, which raises)
RunFiles(d) ==
    {<<HeaderLine(d)>> \o rows :
        rows \in {q \in SeqsUpTo(RawRows(d), MaxRows) :
                     \A i \in 1..Len(q) : Blank \notin Range(q[i])}}

\* <driver>.load() of the run
run_load(file) ==
    /\ run.step = "load"
    /\ load(officers_order[run.at], file, chunk_size_default)
    /\ run' = [run EXCEPT !.step = "update"]

\* <driver>.update() of the run; after the last driver the next run begins
run_update ==
    /\ run.step = "update"
    /\ update(officers_order[run.at])
    /\ run' = [run EXCEPT !.step = "load",
                          !.at = IF @ = Len(officers_order) THEN 1 ELSE @ + 1,
                          !.log = Append(@, call(officers_order[run.at], "update",
                                                 last'.outcome)),
                          !.printed = IF last'.outcome = "ok"
                                      THEN Append(@, Cardinality(inserted')) ELSE @]

NextRuns ==
    \/ \E file \in RunFiles(officers_order[run.at]) : run_load(file) /\ UNCHANGED viewvars
    \/ load_row /\ UNCHANGED <<viewvars, run>>
    \/ load_end /\ UNCHANGED <<viewvars, run>>
    \/ load_return /\ UNCHANGED <<viewvars, run>>
    \/ run_update /\ UNCHANGED viewvars

SpecRuns == InitRuns /\ [][NextRuns]_vars

----------------------------------------------------------------------------
(* The OfficerCommittees driver on an officers relation that holds rows:  *)
(* one load() of a link file, then update(), which a caller may repeat.    *)

\* the data rows of CmteOfficerLinks.txt: a link id, a committee, an officer;
\* the committee is one the officers relation names, another one or blank
LinkRows ==
    {<<Filler, c, id>> : c \in CommitteeCells \cup {<<"8">>, <<>>},
                         id \in IdCells \cup {<<"0", "1">>, <<>>}}

LinkFiles ==
    {<<HeaderLine("OfficerCommittees")>> \o rows : rows \in SeqsUpTo(LinkRows, MaxRows)}

InitLinks == InitETL({"officers"}) /\ NoViews

NextLinks ==
    \/ \E file \in LinkFiles :
          /\ last = NoCall
          /\ load("OfficerCommittees", file, chunk_size_default)
          /\ UNCHANGED <<viewvars, run>>
    \/ load_row /\ UNCHANGED <<viewvars, run>>
    \/ load_end /\ UNCHANGED <<viewvars, run>>
    \/ load_return /\ UNCHANGED <<viewvars, run>>
    \/ update("OfficerCommittees") /\ UNCHANGED <<viewvars, run>>

SpecLinks == InitLinks /\ [][NextLinks]_vars

----------------------------------------------------------------------------
(* The CandidateCommittees driver: load() of a link file and update() on  *)
(* the association table candidate_committees of a fresh database.         *)

\* the data rows of CmteCandidateLinks.txt: a link id, a committee, a
\* candidate; the candidate cell may be blank
PairRows == RawRows("CandidateCommittees")

PairFiles == Files("CandidateCommittees")

InitPairs ==
    /\ family = "candidate_committees"
    /\ target = [t \in Tables |-> {}]
    /\ temp = [t \in Tables |-> NoTable]
    /\ pc = "idle"
    /\ cur = NoLoad
    /\ batches = <<>>
    /\ clock = 1
    /\ last = NoCall
    /\ inserted = {}
    /\ crashed = NoCrash
    /\ trans = "closed"
    /\ run = NoRun
    /\ NoViews

NextPairs ==
    \/ \E file \in PairFiles :
          /\ load("CandidateCommittees", file, chunk_size_default)
          /\ UNCHANGED <<viewvars, run>>
    \/ load_row /\ UNCHANGED <<viewvars, run>>
    \/ load_end /\ UNCHANGED <<viewvars, run>>
    \/ load_return /\ UNCHANGED <<viewvars, run>>
    \/ update("CandidateCommittees") /\ UNCHANGED <<viewvars, run>>

SpecPairs == InitPairs /\ [][NextPairs]_vars

----------------------------------------------------------------------------
(* load() of the datasets whose transform recodes cells: Committees and   *)
(* Candidacy, on a fresh database.                                         *)

\* the cells of the recoded columns: the codes, a padded code, a code of
\* another case or dataset, a blank cell and a cell of whitespace
StatusCells == {<<"A">>, <<" ", "A">>, <<"I">>, <<"a">>, <<>>, <<" ">>}
PositionCells == {<<"O">>, <<"S">>, <<"S", " ">>, <<"X">>, <<>>, <<" ">>}
ElectionCells ==
    {<<"C", "E">>, <<"G", "P">>, <<"N", "E">>, <<" ", "S", "E">>, <<"X", "X">>, <<>>, <<" ">>}
RaceCells == {<<"I", "n", "c">>, <<"O", "p", "e", "n">>, <<"i", "n", "c">>, <<>>}
OutcomeCells == {<<"W", "o", "n">>, <<"L", "o", "s", "t">>, <<"w", "o", "n">>, <<"W", "o", "n", " ">>, <<>>}

\* the data rows the model draws for Committees.txt and CanElections.txt:
\* rows of the full width, and rows one cell short of the last index read
RecodeRows(d) ==
    IF d = "Committees"
    THEN {Fill(14) \o <<st>> \o Fill(8) \o <<p1, p2>> :
             st \in StatusCells, p1, p2 \in PositionCells}
         \cup {Fill(24)}
    ELSE {<<Filler, Filler, e, Filler, r, o>> :
             e \in ElectionCells, r \in RaceCells, o \in OutcomeCells}
         \cup {Fill(5)}

\* files of one data row, or of a short row between two rows
RecodeFiles(d) ==
    LET n == Len(header(d))
    IN  {<<Fill(n), r>> : r \in RecodeRows(d)}
        \cup {<<Fill(n), Fill(n), Fill(n - 1), Fill(n)>>}

RecodeTables == {"committees", "candidacies"}

InitRecode ==
    /\ family \in RecodeTables
    /\ target = [t \in Tables |-> {}]
    /\ temp = [t \in Tables |-> NoTable]
    /\ pc = "idle"
    /\ cur = NoLoad
    /\ batches = <<>>
    /\ clock = 1
    /\ last = NoCall
    /\ inserted = {}
    /\ crashed = NoCrash
    /\ trans = "closed"
    /\ run = NoRun
    /\ NoViews

NextRecode ==
    \/ \E d \in {"Committees", "Candidacy"} : \E file \in RecodeFiles(d) :
          /\ last = NoCall
          /\ load(d, file, chunk_size_default)
          /\ UNCHANGED <<viewvars, run>>
    \/ load_row /\ UNCHANGED <<viewvars, run>>
    \/ load_end /\ UNCHANGED <<viewvars, run>>
    \/ load_return /\ UNCHANGED <<viewvars, run>>

SpecRecode == InitRecode /\ [][NextRecode]_vars

----------------------------------------------------------------------------
(* C1 *)

\* C1: for every driver, a second update() in a row over the same staging
\* content leaves the target relations exactly as the first left them: it adds
\* no row and changes no column value.
C1_Idempotent ==
    [][(\E d \in Drivers : UpdateStep(d)) /\ last.op = "update" => target' = target]_vars

----------------------------------------------------------------------------
(* C2 *)

\* what C2 says of staged row s, given the target before and after the merge and
\* the rows the merge returned as inserted
C2_Row(s, before, after, ins) ==
    IF WithId(before, s) = {}
    THEN s \in ins /\ WithId(after, s) = {s}
    ELSE WithId(ins, s) = {} /\ WithId(after, s) = {s}

\* C2 (as claimed): in one update() of the generic merge every staged row with an
\* absent key becomes exactly one inserted row, and every staged row with a
\* present key inserts nothing and leaves exactly one target row carrying its
\* values; for every staging content, repeated keys included.
C2_AntiJoin ==
    [][UpdateStep("FiledDocs") =>
          \A i \in 1..Len(Staged("FiledDocs")) :
             C2_Row(Staged("FiledDocs")[i], target["filed_docs"],
                    target'["filed_docs"], inserted')]_vars

\* C2 (amended): the same, for every staging content in which every row
\* carries a key (its id is not null) and no two rows carry the same key.
C2_AntiJoinUniqueKeys ==
    [][(/\ UpdateStep("FiledDocs")
        /\ NoNullKeys(Staged("FiledDocs"))
        /\ NoDupKeys("FiledDocs", Staged("FiledDocs"))) =>
          \A i \in 1..Len(Staged("FiledDocs")) :
             C2_Row(Staged("FiledDocs")[i], target["filed_docs"],
                    target'["filed_docs"], inserted')]_vars

\* a first merge has inserted one staged row and updated another
C2_Witness ==
    /\ pc = "idle"
    /\ last.op = "update"
    /\ last.driver = "FiledDocs"
    /\ last.updates = 1
    /\ last.outcome = "ok"
    /\ NoNullKeys(Staged("FiledDocs"))
    /\ NoDupKeys("FiledDocs", Staged("FiledDocs"))
    /\ inserted # {}
    /\ \E i \in 1..Len(Staged("FiledDocs")) :
          /\ Staged("FiledDocs")[i] \notin inserted
          /\ Staged("FiledDocs")[i] \in target["filed_docs"]

----------------------------------------------------------------------------
(* C3 *)

\* C3: when update() is about to run after the load() of its driver, the staging
\* relation exists and holds exactly the rows that load() normalized.
C3_StagingFresh ==
    pc = "idle" /\ last.op = "load" =>
        /\ temp[table_name(last.driver)].exists
        /\ temp[table_name(last.driver)].rows = last.rows

----------------------------------------------------------------------------
(* C4 *)

\* C4: after update() returns from a successful merge the staging relation of
\* its table no longer exists.
C4_StagingDropped ==
    pc = "idle" /\ last.op = "update" /\ last.outcome = "ok" =>
        ~temp[table_name(last.driver)].exists

----------------------------------------------------------------------------
(* C5 *)

\* C5: a batch write of load() that fails leaves no row in staging, the error
\* reaches the caller and no later batch is written: a failed batch is the last
\* one of a load() that raised, and load() never returns with a failed batch
\* behind it.
C5_BatchFailureSurfaces ==
    \A k \in 1..Len(batches) :
        batches[k].outcome # "ok" =>
            /\ pc = "raised"
            /\ k = Len(batches)

----------------------------------------------------------------------------
(* C6 *)

\* C6: when the merge statement of update() fails, the target is as it was
\* before the call (the effect of the rollback) and the error is reported to the
\* caller of update().
C6_MergeFailureReported ==
    [][\A d \in Drivers :
          UpdateStep(d) /\ last'.outcome # "ok" =>
             /\ target' = target
             /\ pc' = "raised"]_vars

----------------------------------------------------------------------------
(* C7 *)

\* the rows of the officers relation with flag cu
Partition(T, cu) == {t \in T : t.current = cu}

\* C7: the Officers merge changes or inserts only rows with current = TRUE, the
\* PrevOfficers merge only rows with current = FALSE, and after either merge
\* every id of its file has a row in its own partition: a current and a
\* historical record of one id coexist.
C7_PartitionsCoexist ==
    /\ [][\A d \in {"Officers", "PrevOfficers"} :
             UpdateStep(d) =>
                Partition(target'["officers"], ~current(d))
                  = Partition(target["officers"], ~current(d))]_vars
    /\ [](pc = "idle" /\ last.op = "update" /\ last.driver \in {"Officers", "PrevOfficers"} =>
             \A i \in 1..Len(last.rows) :
                \E t \in Partition(target["officers"], current(last.driver)) :
                   t.id = last.rows[i].id)

----------------------------------------------------------------------------
(* C8 *)

\* C8: a successful Candidates merge at time NOW gives every staged row with an
\* absent key one row with date_added = last_update = NOW, and every staged row
\* with a present key one row with last_update = NOW and date_added as before.
C8_Timestamps ==
    [][UpdateStep("Candidates") /\ last'.outcome = "ok" =>
          \A i \in 1..Len(Staged("Candidates")) :
             LET s == Staged("Candidates")[i]
                 old == WithId(target["candidates"], s)
                 new == WithId(target'["candidates"], s)
             IN  /\ Cardinality(new) = 1
                 /\ \A r \in new :
                      /\ r.last_update = NOW
                      /\ IF old = {} THEN r.date_added = NOW
                         ELSE \A o \in old : r.date_added = o.date_added]_vars

\* one merge has inserted a candidate and updated an older one
C8_Witness ==
    /\ pc = "idle"
    /\ last.op = "update"
    /\ last.driver = "Candidates"
    /\ last.outcome = "ok"
    /\ \E r \in inserted : r.date_added = clock - 1 /\ r.last_update = clock - 1
    /\ \E r \in target["candidates"] :
          /\ r.last_update = clock - 1
          /\ r.date_added < clock - 1
          /\ \E i \in 1..Len(Staged("Candidates")) : Staged("Candidates")[i].id = r.id

----------------------------------------------------------------------------
(* C9 *)

RECURSIVE Concat(_)
\* the rows of the batches of log bs, in write order
Concat(bs) == IF bs = <<>> THEN <<>> ELSE Head(bs).rows \o Concat(Tail(bs))

\* C9: when load() has written its last batch, N rows went out in N div B
\* batches of B rows, then one of N mod B rows iff N mod B > 0; no batch is empty
\* and the batches, in order, are the normalized rows.
C9_Batches ==
    pc = "loaded" =>
        LET N == Len(last.rows)
            B == cur.chunk_size
            q == N \div B
        IN  /\ Len(batches) = q + (IF N % B > 0 THEN 1 ELSE 0)
            /\ \A k \in 1..Len(batches) :
                  Len(batches[k].rows) = IF k <= q THEN B ELSE N % B
            /\ \A k \in 1..Len(batches) : batches[k].rows # <<>>
            /\ Concat(batches) = last.rows

\* a load() of three rows with chunk_size 2 wrote a whole batch and a partial one
C9_Witness ==
    /\ pc = "loaded"
    /\ Len(batches) >= 2
    /\ Len(batches[1].rows) >= 2
    /\ Len(batches[Len(batches)].rows) < cur.chunk_size

----------------------------------------------------------------------------
(* C10 *)

\* C10: whenever makeAllViews is about to refresh or create a view, every
\* materialized view its defining query reads exists: it was there before the
\* call or a builder earlier in the call built it.
C10_DependenciesFirst ==
    vpc \in 1..Len(makeAllViews_order) /\ verr = "none" =>
        \A r \in Reads(makeAllViews_order[vpc]) :
            /\ r \in views
            /\ \E k \in 1..(vpc - 1) : makeAllViews_order[k] = r

\* full_search is about to be built and the views it reads were created by this call
C10_Witness ==
    /\ vpc \in 1..Len(makeAllViews_order)
    /\ verr = "none"
    /\ makeAllViews_order[vpc] = "full_search"
    /\ \A r \in Reads("full_search") :
          \E k \in 1..Len(built) : built[k] = [view |-> r, how |-> "create"]

----------------------------------------------------------------------------
(* C11 *)

\* this step is a call of the builder of view v
BuilderStep(v) == vcall' # vcall /\ vcall'.view = v

\* the builder call c executed statement stmt with outcome o
Executed(c, stmt, o) ==
    \E k \in 1..Len(c.stmts) : c.stmts[k].stmt = stmt /\ c.stmts[k].outcome = o

\* C11: a builder called while its view exists refreshes it and issues no
\* create; called while the view does not exist and everything it reads exists,
\* it creates the view; in both cases it returns and the view exists.
C11_RefreshOrCreate ==
    [][\A v \in Views :
          BuilderStep(v) =>
             /\ v \in views =>
                   /\ Executed(vcall', "REFRESH", "ok")
                   /\ \A k \in 1..Len(vcall'.stmts) : vcall'.stmts[k].stmt # "CREATE"
                   /\ views' = views
             /\ v \notin views /\ tables /\ Reads(v) \subseteq views =>
                   /\ Executed(vcall', "CREATE", "ok")
                   /\ views' = views \cup {v}
             /\ v \in views \/ (tables /\ Reads(v) \subseteq views) =>
                   vcall'.outcome = "ok" /\ v \in views']_vars

\* makeAllViews has refreshed one view and created another
C11_Witness ==
    /\ \E k \in 1..Len(built) : built[k].how = "refresh"
    /\ \E k \in 1..Len(built) : built[k].how = "create"
    /\ vcall.outcome = "ok"
    /\ Executed(vcall, "CREATE", "ok")

----------------------------------------------------------------------------
(* C12 *)

\* C12: when a builder fails inside makeAllViews, every view of the build order
\* that does not read the failed view, directly or through other views, has
\* been attempted when makeAllViews ends, and the views built earlier in the
\* call exist.
C12_FailureIsLocal ==
    verr # "none" =>
        /\ \A k \in 1..Len(makeAllViews_order) :
              /\ k # vpc
              /\ makeAllViews_order[k] \notin
                    Dependents(makeAllViews_order[vpc], Views)
              => \E j \in 1..Len(built) : built[j].view = makeAllViews_order[k]
        /\ \A j \in 1..Len(built) : built[j].view \in views

----------------------------------------------------------------------------
(* C13 *)

\* C13: a builder called while a view its query reads does not exist fails: the
\* error is raised to the caller, the transaction of the create is rolled back,
\* the view is absent afterwards and no other view has appeared.
C13_MissingDependencyFails ==
    [][\A v \in Views :
          BuilderStep(v) /\ ~(Reads(v) \subseteq views) =>
             /\ vcall'.outcome = "ProgrammingError"
             /\ vcall'.stmts[Len(vcall'.stmts)].stmt = "CREATE"
             /\ vcall'.stmts[Len(vcall'.stmts)].trans = "rollback"
             /\ v \notin views'
             /\ views' = views]_vars

\* the builder of full_search has failed for a missing condensed view while the
\* base tables exist
C13_Witness ==
    /\ vcall.view = "full_search"
    /\ vcall.outcome = "ProgrammingError"
    /\ tables
    /\ ~(Reads("full_search") \subseteq views)

----------------------------------------------------------------------------
(* C14 *)

\* the last call was a load() that was interrupted
Interrupted == pc = "idle" /\ last.op = "load" /\ last.outcome = "interrupted"

\* the rows of the batches of log bs that committed, in write order
Committed(bs) == Concat(SelectSeq(bs, LAMBDA b : b.outcome = "ok"))

\* target row r carries the merge key of staged row s of driver d
KeyOf(d, r, s) ==
    CASE d \in JoinOnId -> Eq(r.id, s.id)
      [] d \in {"Officers", "PrevOfficers"} -> Eq(r.id, s.id) /\ r.current = s.current
      [] d = "OfficerCommittees" -> Eq(r.id, s.officer_id)
      [] d = "CandidateCommittees" ->
            Eq(r.committee_id, s.committee_id) /\ Eq(r.candidate_id, s.candidate_id)

\* C14: after load() was interrupted the staging relation holds exactly the rows
\* of the batches that committed, and a following update() (of staging without
\* repeated keys) succeeds without raising, gives every row of those batches a
\* target row and adds no row that is not of those batches.
C14_InterruptedLoadUsable ==
    /\ [](Interrupted => Staged(last.driver) = Committed(batches))
    /\ [][\A d \in Drivers :
             UpdateStep(d) /\ Interrupted /\ NoDupKeys(d, Staged(d)) =>
                LET t == table_name(d)
                    rows == Committed(batches)
                IN  /\ last'.outcome = "ok"
                    /\ pc' = "idle"
                    /\ \A r \in target'[t] \ target[t] :
                          \E i \in 1..Len(rows) : KeyOf(d, r, rows[i])
                    /\ d # "OfficerCommittees" =>
                          \A i \in 1..Len(rows) :
                             \E r \in target'[t] : KeyOf(d, r, rows[i])]_vars

----------------------------------------------------------------------------
(* C15 *)

\* the staging relation a load() of rows makes when none exists
FreshStaging(d, rows) == [createTempTable(d, NoTable) EXCEPT !.rows = rows]

\* the contents an uninterrupted load() and update() of rows gives target T
Uninterrupted(d, T, rows, now) ==
    {IF upsert_outcome(d, FreshStaging(d, rows), T, ch, now) = "ok"
     THEN upsert_update(d, T, rows, ch, now) \cup Range(upsert_insert(d, T, rows, now))
     ELSE T : ch \in JoinChoices(d, T, rows)}

\* the content of T but for the managed timestamps, which differ between two
\* merges made at different times
Untimed(T) ==
    {IF "last_update" \in DOMAIN r
     THEN [r EXCEPT !.last_update = 0, !.date_added = 0] ELSE r : r \in T}

\* C15: after an interrupted load(), with or without an update() after it, a
\* complete load() of the same rows followed by update() leaves the target with
\* the content an uninterrupted load() and update() gives the target the
\* interrupted load() found.
C15_RerunRemedies ==
    [][\A d \in Drivers :
          /\ UpdateStep(d)
          /\ last.op = "load" /\ last.outcome = "ok"
          /\ crashed.driver = d /\ crashed.rows = last.rows
          /\ clock - crashed.at \in {1, 2}
          => Untimed(target'[table_name(d)]) \in
                {Untimed(T) : T \in Uninterrupted(d, crashed.target, last.rows, NOW)}]_vars

----------------------------------------------------------------------------
(* C16 *)

\* C16: when a batch write or a merge has returned or raised, the transaction
\* it began has been committed or rolled back, so that no transaction is open
\* when the next one begins; and every statement of a view builder ended in a
\* commit or a rollback.
C16_TransactionsEnd ==
    /\ pc \in {"idle", "loaded", "raised"} => trans = "closed"
    /\ \A k \in 1..Len(vcall.stmts) : vcall.stmts[k].trans \in {"commit", "rollback"}

----------------------------------------------------------------------------
(* C17 *)

\* the entity tables a dataset refers to
References(d) ==
    CASE d = "candidacy" -> {"candidates"}
      [] d = "can_cmte_xwalk" -> {"candidates", "committees"}
      [] d = "off_cmte_xwalk" -> {"committees", "officers", "prev_off"}
      [] d = "d2_reports" -> {"filed_docs"}
      [] d \in {"receipts", "expenditures", "investments"} -> {"committees", "filed_docs"}
      [] OTHER -> {}

\* the calls of load() and update() the run has made, in order
DatasetCalls == SelectSeq(run.log, LAMBDA c : c.op \in {"load", "update"})

\* C17: the calls of a run come in pairs, the load() of a dataset that was not
\* processed before and, once it has returned, the update() of the same
\* dataset, with no call of another dataset between or during them; and when
\* the update() of a dataset is called, the update() of every entity table it
\* refers to has been called and has returned.
C17_OneAtATimeInOrder ==
    LET log == DatasetCalls
    IN  \A k \in 1..Len(log) :
           /\ log[k].op = "load" =>
                 /\ k % 2 = 1
                 /\ \A j \in 1..(k - 1) :
                       log[j].dataset # log[k].dataset /\ log[j].outcome # "raised"
           /\ log[k].op = "update" =>
                 /\ k % 2 = 0
                 /\ log[k - 1] = call(log[k].dataset, "load", "ok")
                 /\ \A r \in References(log[k].dataset) :
                       \E j \in 1..(k - 1) :
                          /\ log[j].dataset = r
                          /\ log[j].op = "update"
                          /\ log[j].outcome # "raised"

\* a run with --load_data that reached connection.close(): all twelve
\* datasets were loaded and merged, then the views were made
C17_Witness ==
    /\ run.step = "closed"
    /\ run.args.load_data
    /\ Len(DatasetCalls) = 2 * Len(main_order)
    /\ \E k \in 1..Len(run.log) : run.log[k] = call("investments", "update", "ok")

----------------------------------------------------------------------------
(* C18 *)

\* the lines of a file that transform() does not pass over as empty
SourceRows(file) ==
    IF file = <<>> THEN <<>> ELSE SelectSeq(Tail(file), LAMBDA row : row # <<>>)

\* the row has as many cells as the file layout of driver d
WellFormed(d, row) == Len(row) = Len(HeaderLine(d))

\* the cells of a row of driver d that reach a record (the link files drop
\* their first cell)
SourceCells(d) ==
    {j \in 1..Len(HeaderLine(d)) : d = "OfficerCommittees" => j > 1}

\* the field that cell j of a well-formed row of driver d belongs to
SourceColumn(d, j) ==
    CASE d \in {"FiledDocs", "Candidates"} -> header(d)[j]
      [] d = "Officers" -> IF j = 1 THEN header(d)[1] ELSE header(d)[j + 1]
      [] d = "PrevOfficers" -> IF j <= 10 THEN header(d)[j] ELSE header(d)[j + 1]
      [] d = "OfficerCommittees" -> header(d)[j - 1]

\* C18: of a file whose rows all have the cell count of the layout, every row
\* gives a record, every cell that is empty after stripping is null in its
\* field, and no cell is emitted as the empty string.
C18_BlankIsNull ==
    last.op = "load" =>
        LET d == last.driver
            src == SourceRows(last.file)
        IN  (\A k \in 1..Len(src) : WellFormed(d, src[k])) =>
               /\ Len(last.rows) = Len(src)
               /\ \A k \in 1..Len(src) : \A j \in SourceCells(d) :
                     /\ last.rows[k][SourceColumn(d, j)] # <<>>
                     /\ strip(src[k][j]) = <<>> =>
                           last.rows[k][SourceColumn(d, j)] = NULL

----------------------------------------------------------------------------
(* C19 *)

\* C19: transform() emits one record for each row with the cell count of the
\* layout and none for the other rows; every record has exactly the header
\* list as its keys and holds in each field the cell that belongs to it.
C19_HeaderKeys ==
    last.op = "load" =>
        LET d == last.driver
            good == SelectSeq(SourceRows(last.file), LAMBDA row : WellFormed(d, row))
        IN  /\ Len(last.rows) = Len(good)
            /\ \A k \in 1..Len(last.rows) : DOMAIN last.rows[k] = Range(header(d))
            /\ \A k \in 1..Len(good) : \A j \in SourceCells(d) :
                  last.rows[k][SourceColumn(d, j)] \in {NULL, strip(good[k][j])}

----------------------------------------------------------------------------
(* C20 *)

\* every batch the running load() wrote was committed
AllWritten == \A k \in 1..Len(batches) : batches[k].outcome = "ok"

\* what the staging relation of the last load() holds when every batch was
\* written, whatever the batch size: the rows staged before, then the
\* normalized rows of the file in file order
StagedWhatever == last.staged \o last.rows

\* C20: when load() has written its last batch and no batch write failed,
\* the staging relation holds the rows staged before the call followed by the
\* normalized rows of the file, whatever chunk_size is; and the update() that
\* follows such a load() leaves the target relation as the merge of those
\* rows into the target, or fails and leaves it unchanged, whatever chunk_size
\* was.
C20_ChunkSizeIsGranularity ==
    [][/\ pc' = "loaded" /\ AllWritten' =>
             temp'[table_name(cur'.driver)].rows = StagedWhatever'
       /\ \A d \in Drivers :
             UpdateStep(d) /\ last.op = "load" /\ last.outcome = "ok" =>
                LET t == table_name(d)
                    rows == StagedWhatever
                IN  \E ch \in JoinChoices(d, target[t], rows) :
                       IF last'.outcome = "ok"
                       THEN target' = [target EXCEPT ![t] =
                               upsert_update(d, @, rows, ch, NOW)
                                 \cup Range(upsert_insert(d, @, rows, NOW))]
                       ELSE target' = target]_vars

\* a load() with a chunk_size smaller than its file wrote two batches or more
\* onto rows staged by an earlier load()
C20_Witness ==
    /\ pc = "loaded"
    /\ AllWritten
    /\ Len(batches) >= 2
    /\ cur.chunk_size < Len(last.rows)
    /\ last.staged # <<>>

----------------------------------------------------------------------------
(* C21 *)

\* the merges of OfficerCommittees the runs have made: the complete runs
CompleteRuns ==
    Len(SelectSeq(run.log, LAMBDA c : c.dataset = "OfficerCommittees"))

\* C21: when the update() of Officers has returned, in the first run and in
\* every run after a complete one, the staging relation holds the normalized
\* rows of the Officers file and the officers relation holds for every id of
\* the file a row with current = TRUE that carries the values of a row of the
\* file with that id.
C21_RerunMergesOfficers ==
    pc = "idle" /\ last.op = "update" /\ last.driver = "Officers" =>
        /\ \A i \in 1..Len(last.rows) :
              \E k \in 1..Len(Staged("Officers")) : Staged("Officers")[k] = last.rows[i]
        /\ \A i \in 1..Len(last.rows) :
              \E t \in target["officers"] :
                 /\ t.current = TRUE
                 /\ t.id = last.rows[i].id
                 /\ \E j \in 1..Len(last.rows) : t = last.rows[j]

----------------------------------------------------------------------------
(* C22 *)

\* officers row t is current and a staged link names its id
Linked(t, links) ==
    t.current = TRUE /\ \E k \in 1..Len(links) : Eq(t.id, links[k].officer_id)

\* C22: a merge of OfficerCommittees that succeeds leaves the officers
\* relation with as many rows as before; every row it held is still there
\* with every column but committee_id as it was; a row that is not current,
\* or whose id no staged link names, is there unchanged; and no other
\* relation changes.
C22_LinkMergeFrame ==
    [][UpdateStep("OfficerCommittees") /\ last'.outcome = "ok" =>
          LET T == target["officers"]
              links == Staged("OfficerCommittees")
          IN  /\ Cardinality(target'["officers"]) = Cardinality(T)
              /\ \A t \in T : \E u \in target'["officers"] :
                    /\ \A c \in DOMAIN t \ {"committee_id"} : u[c] = t[c]
                    /\ DOMAIN u = DOMAIN t
                    /\ ~Linked(t, links) => u = t
              /\ \A r \in Tables \ {"officers"} : target'[r] = target[r]]_vars

\* a merge of links moved a current officer to committee 8 while the officers
\* relation also holds a row that is not current
C22_Witness ==
    /\ last.op = "update"
    /\ last.driver = "OfficerCommittees"
    /\ last.outcome = "ok"
    /\ \E t \in target["officers"] : t.current = TRUE /\ t.committee_id = <<"8">>
    /\ \E t \in target["officers"] : t.current = FALSE

----------------------------------------------------------------------------
(* C23 *)

\* C23: in the runs of the officers drivers, a merge of Officers that
\* succeeds leaves every current officers row whose id a staged current row
\* carries (the rows it updated or inserted) with committee_id null; and a
\* merge of OfficerCommittees that succeeds leaves every current officers row
\* whose id a row of the link file names with the committee_id of a row of
\* the link file that names it.
C23_LinkRestored ==
    [][/\ UpdateStep("Officers") /\ last'.outcome = "ok" =>
             \A u \in target'["officers"] :
                (/\ u.current = TRUE
                 /\ \E k \in 1..Len(Staged("Officers")) :
                       /\ Staged("Officers")[k].current = TRUE
                       /\ Eq(u.id, Staged("Officers")[k].id))
                => u.committee_id = NULL
       /\ UpdateStep("OfficerCommittees") /\ last'.outcome = "ok" =>
             \A u \in target'["officers"] :
                (/\ u.current = TRUE
                 /\ \E k \in 1..Len(last.rows) : Eq(u.id, last.rows[k].officer_id))
                => \E k \in 1..Len(last.rows) :
                      /\ Eq(u.id, last.rows[k].officer_id)
                      /\ u.committee_id = last.rows[k].committee_id]_vars

\* the first run on an officers relation that held officer 1 as a current
\* record is complete: its Officers merge inserted no row, so the record of
\* officer 1 with the phone of the file is one that merge updated, and
\* cleared of its committee; its OfficerCommittees merge has linked the
\* record to committee 7 again
C23_Witness ==
    /\ CompleteRuns = 1
    /\ run.log[1] = call("Officers", "update", "ok")
    /\ run.printed[1] = 0
    /\ last.op = "update"
    /\ last.driver = "OfficerCommittees"
    /\ last.outcome = "ok"
    /\ \E k \in 1..Len(last.rows) : last.rows[k].officer_id = <<"1">>
    /\ \E t \in target["officers"] :
          /\ t.current = TRUE
          /\ t.id = <<"1">>
          /\ t.phone = Filler
          /\ t.committee_id = <<"7">>

----------------------------------------------------------------------------
(* C24 *)

\* this step is the call of dropViews
DropStep == ~dropped /\ dropped'

\* makeAllViews was called after dropViews on a database without views:
\* every view that exists was created by this call
MadeFromNothing ==
    /\ dropped
    /\ vpc >= 1
    /\ \A v \in views : \E k \in 1..Len(built) : built[k] = [view |-> v, how |-> "create"]

\* every builder called so far took the create branch and none raised; when
\* the call is over all ten views exist
AllCreated ==
    /\ verr = "none"
    /\ \A k \in 1..Len(built) : built[k].how = "create"
    /\ vpc > Len(makeAllViews_order) => views = Views

\* C24 (as claimed): dropViews leaves no view, whatever views existed, and a
\* makeAllViews that follows creates all ten views and ends with all ten
\* existing.
C24_DropThenCreateAll ==
    [][/\ DropStep => views' = {}
       /\ MadeFromNothing' => AllCreated']_vars

\* C24 (amended): the same, for a makeAllViews on a database whose base
\* tables exist.
C24_DropThenCreateAllOnTables ==
    [][/\ DropStep => views' = {}
       /\ MadeFromNothing' /\ tables' => AllCreated']_vars

\* dropViews ran and the makeAllViews after it has created all ten views
C24_Witness ==
    /\ MadeFromNothing
    /\ tables
    /\ vpc > Len(makeAllViews_order)
    /\ Len(built) = Len(makeAllViews_order)
    /\ views = Views

----------------------------------------------------------------------------
(* C25 *)

\* makeAllViews was called when all ten views existed: all exist and every
\* builder called so far refreshed
AllExisted ==
    /\ vpc >= 1
    /\ views = Views
    /\ \A k \in 1..Len(built) : built[k].how = "refresh"

\* C25: in a makeAllViews on a database that holds all ten views no builder
\* raises, every view is refreshed after each view its query reads was
\* refreshed in this call, and when the call is over every view has been
\* refreshed.
C25_RefreshAfterDependencies ==
    AllExisted =>
        /\ verr = "none"
        /\ \A k \in 1..Len(built) : \A r \in Reads(built[k].view) :
              \E j \in 1..(k - 1) : built[j] = [view |-> r, how |-> "refresh"]
        /\ vpc > Len(makeAllViews_order) => {built[k].view : k \in 1..Len(built)} = Views

\* a makeAllViews that refreshed all ten views is over
C25_Witness ==
    /\ AllExisted
    /\ vpc > Len(makeAllViews_order)
    /\ Len(built) = Len(makeAllViews_order)

----------------------------------------------------------------------------
(* C26 *)

\* the (committee_id, candidate_id) pair of a row
Pair(r) == <<r.committee_id, r.candidate_id>>

Pairs(R) == {Pair(r) : r \in R}

\* C26: a merge of CandidateCommittees that succeeds keeps every row of
\* candidate_committees as it was and adds one row for each staged pair that
\* the relation did not hold and no other row; and the relation never holds
\* one pair in two rows.
C26_PairsOnce ==
    [][/\ UpdateStep("CandidateCommittees") /\ last'.outcome = "ok" =>
             LET T == target["candidate_committees"]
                 new == target'["candidate_committees"] \ T
             IN  /\ T \subseteq target'["candidate_committees"]
                 /\ Pairs(new) = Pairs(Range(Staged("CandidateCommittees"))) \ Pairs(T)
                 /\ \A a, b \in new : Pair(a) = Pair(b) => a = b
       /\ \A a, b \in target'["candidate_committees"] : Pair(a) = Pair(b) => a = b]_vars

----------------------------------------------------------------------------
(* C27 *)

\* the rows of the last file that gave a record, in order
Emitted == SubSeq(transform_rows(last.driver, last.file), 1, Len(last.rows))

\* the position a cell of Committees.txt stands for
Position(cell) ==
    IF strip(cell) = <<"O">> THEN <<"oppose">>
    ELSE IF strip(cell) = <<"S">> THEN <<"support">>
    ELSE NULL

\* C27: in every record the Committees transform emits, status is a boolean
\* that is true exactly when the stripped cell at index 14 is A, and the
\* fields of the cells at indices 23 and 24 are oppose for O, support for S
\* and null for every other cell.
C27_CommitteesRecoded ==
    last.op = "load" /\ last.driver = "Committees" =>
        \A k \in 1..Len(last.rows) :
           LET rec == last.rows[k]
               row == Emitted[k]
           IN  /\ rec.status \in BOOLEAN
               /\ rec.status <=> strip(row[15]) = <<"A">>
               /\ rec.candidate_position = Position(row[24])
               /\ rec.ballot_position = Position(row[25])

\* a Committees row with a padded A and the codes O and S gave a record
C27_Witness ==
    /\ last.op = "load"
    /\ last.driver = "Committees"
    /\ pc = "loaded"
    /\ \E k \in 1..Len(last.rows) :
          /\ Emitted[k][15] = <<" ", "A">>
          /\ last.rows[k].status = TRUE
          /\ last.rows[k].candidate_position = <<"oppose">>
          /\ last.rows[k].ballot_position = <<"support">>

----------------------------------------------------------------------------
(* C28 *)

\* the lookup tables of the Candidacy transform, as the claim states them
ElectionType(cell) ==
    CASE strip(cell) = <<"C", "E">> -> <<"Consolidated Election">>
      [] strip(cell) = <<"G", "P">> -> <<"General Primary">>
      [] strip(cell) = <<"G", "E">> -> <<"General Election">>
      [] strip(cell) = <<"C", "P">> -> <<"Consolidated Primary">>
      [] strip(cell) = <<"S", "E">> -> <<"Special Election">>
      [] OTHER -> NULL

RaceType(cell) ==
    CASE strip(cell) = <<"I", "n", "c">> -> <<"incumbent">>
      [] strip(cell) = <<"O", "p", "e", "n">> -> <<"open seat">>
      [] strip(cell) = <<"C", "h", "a", "l">> -> <<"challenger">>
      [] strip(cell) = <<"R", "e", "t">> -> <<"retired">>
      [] OTHER -> NULL

\* C28: in every record the Candidacy transform emits, election_type and
\* race_type are the value of the lookup table for the stripped cells at
\* indices 2 and 4, null for a code the table does not hold and for a blank
\* cell, and outcome is won for Won, lost for Lost and null for every other
\* cell.
C28_CandidacyRecoded ==
    last.op = "load" /\ last.driver = "Candidacy" =>
        \A k \in 1..Len(last.rows) :
           LET rec == last.rows[k]
               row == Emitted[k]
           IN  /\ rec.election_type = ElectionType(row[3])
               /\ rec.race_type = RaceType(row[5])
               /\ rec.outcome = IF strip(row[6]) = <<"W", "o", "n">> THEN <<"won">>
                                ELSE IF strip(row[6]) = <<"L", "o", "s", "t">> THEN <<"lost">>
                                ELSE NULL

\* a Candidacy row with a padded SE, the race Open and the outcome Lost gave
\* a record
C28_Witness ==
    /\ last.op = "load"
    /\ last.driver = "Candidacy"
    /\ pc = "loaded"
    /\ \E k \in 1..Len(last.rows) :
          /\ Emitted[k][3] = <<" ", "S", "E">>
          /\ last.rows[k].election_type = <<"Special Election">>
          /\ last.rows[k].race_type = <<"open seat">>
          /\ last.rows[k].outcome = <<"lost">>

=============================================================================
